---- MODULE Spec2Model ----
(***************************************************************************)
(* A model of the Tribes 2 engine scraper (scraper.py) and of the part of  *)
(* its DokuWiki front end (t2src.py) that touches the scraped model.       *)
(*                                                                         *)
(* A Python str is a sequence of one-character strings.  Python indices    *)
(* are 0-based and are kept 0-based in every operator that models a        *)
(* Python call; only the access to the TLA+ sequence adds one.             *)
(***************************************************************************)
EXTENDS Integers, Sequences, FiniteSets, TLC

VARIABLES file, file_buffer, pc, pos, self, cls, prev, run, exc,
          index, global_arith_functions, global_alx_functions,
          argument_string, returned

vars == <<file, file_buffer, pc, pos, self, cls, prev, run, exc,
          index, global_arith_functions, global_alx_functions,
          argument_string, returned>>

(***************************************************************************)
(* Bounds of the model.                                                    *)
(***************************************************************************)
MaxBlocks == 2

MaxLen == 5

(***************************************************************************)
(* Python built-ins on str and list.                                       *)
(***************************************************************************)
Min(a, b) == IF a < b THEN a ELSE b

Max(a, b) == IF a > b THEN a ELSE b

\* Python's None
None == "None"

\* the index a slice bound i stands for in a sequence of length n
SliceIndex(i, n) == IF i < 0 THEN Max(i + n, 0) ELSE Min(i, n)

\* s[a:b]
Slice(s, a, b) == SubSeq(s, SliceIndex(a, Len(s)) + 1, SliceIndex(b, Len(s)))

\* s[i] for 0 <= i < len(s)
At(s, i) == s[i + 1]

\* s.startswith(sub, i)
StartsAt(s, sub, i) ==
    /\ i + Len(sub) <= Len(s)
    /\ SubSeq(s, i + 1, i + Len(sub)) = sub

\* the least and the greatest member of a non-empty set of indices
Least(S) == CHOOSE x \in S : \A y \in S : x <= y

Greatest(S) == CHOOSE x \in S : \A y \in S : x >= y

\* the lowest index in lo..hi at which sub starts, or -1
FindUp(s, sub, lo, hi) ==
    LET hits == {i \in lo..hi : StartsAt(s, sub, i)}
    IN IF hits = {} THEN -1 ELSE Least(hits)

\* s.find(sub, start)
Find(s, sub, start) ==
    FindUp(s, sub, SliceIndex(start, Len(s)), Len(s) - Len(sub))

\* the highest index in lo..hi at which sub starts, or -1
FindDown(s, sub, lo, hi) ==
    LET hits == {i \in lo..hi : StartsAt(s, sub, i)}
    IN IF hits = {} THEN -1 ELSE Greatest(hits)

\* s.rfind(sub, start, end)
RFind(s, sub, start, end) ==
    FindDown(s, sub, SliceIndex(start, Len(s)),
             SliceIndex(end, Len(s)) - Len(sub))

\* s.count(ch) for a one-character ch
Count(s, ch) == Cardinality({i \in 1..Len(s) : s[i] = ch})

\* string.whitespace: the space, \t, \n, \r, the form feed \x0c and the
\* vertical tab \x0b (the last string of the set holds that character)
Whitespace == {" ", "\t", "\n", "\r", "\f", ""}

RECURSIVE LStripChars(_, _)
LStripChars(s, chars) ==
    IF s # <<>> /\ Head(s) \in chars THEN LStripChars(Tail(s), chars) ELSE s

RECURSIVE RStripChars(_, _)
RStripChars(s, chars) ==
    IF s # <<>> /\ s[Len(s)] \in chars
    THEN RStripChars(SubSeq(s, 1, Len(s) - 1), chars)
    ELSE s

\* s.lstrip()
LStrip(s) == LStripChars(s, Whitespace)

\* s.strip()
Strip(s) == RStripChars(LStripChars(s, Whitespace), Whitespace)

RECURSIVE Replace(_, _, _)
\* s.replace(old, new) for a non-empty old
Replace(s, old, new) ==
    IF Len(s) < Len(old) THEN s
    ELSE IF StartsAt(s, old, 0)
         THEN new \o Replace(SubSeq(s, Len(old) + 1, Len(s)), old, new)
         ELSE <<Head(s)>> \o Replace(Tail(s), old, new)

RECURSIVE Split(_, _)
\* s.split(sep) for a one-character sep
Split(s, sep) ==
    LET k == Find(s, <<sep>>, 0)
    IN IF k = -1 THEN <<s>>
       ELSE <<Slice(s, 0, k)>> \o Split(Slice(s, k + 1, Len(s)), sep)

RECURSIVE Join(_, _)
\* string.join(words, sep)
Join(words, sep) ==
    IF words = <<>> THEN <<>>
    ELSE IF Len(words) = 1 THEN words[1]
    ELSE words[1] \o sep \o Join(Tail(words), sep)

(***************************************************************************)
(* The quote-safe preprocessor.                                            *)
(***************************************************************************)
RECURSIVE SkipTo(_, _, _)
\* the index after the longest run of characters outside stops that starts
\* at i: where a greedy character class ends
SkipTo(s, i, stops) ==
    IF i < Len(s) /\ At(s, i) \notin stops THEN SkipTo(s, i + 1, stops) ELSE i

RECURSIVE SkipSpaces(_, _)
\* the index after the run of " " that starts at i: " *"
SkipSpaces(s, i) ==
    IF i < Len(s) /\ At(s, i) = " " THEN SkipSpaces(s, i + 1) ELSE i

\* the index after the run of non-whitespace that starts at i: "\S*"
SkipNonSpace(s, i) == SkipTo(s, i, Whitespace)

\* the end of the match of string_expression that starts at i, or -1
string_expression(s, i) ==
    IF ~(i < Len(s) /\ At(s, i) = "\"") THEN -1
    ELSE LET p == SkipSpaces(s, i + 1)
             r == SkipNonSpace(s, p)
             \* \S+ is greedy: it gives back as little as it must for the quote
             k == FindDown(s, <<"\"">>, p + 1, r - 1)
         IN IF k = -1 THEN -1 ELSE SkipSpaces(s, k + 1)

RECURSIVE SemiLocations(_, _)
\* string_text.find(";", semi_occurrence) for the occurrences below n
SemiLocations(string_text, n) ==
    IF n = 0 THEN {}
    ELSE {Find(string_text, <<";">>, n - 1)} \cup SemiLocations(string_text, n - 1)

\* the indices the pass over one match of string_expression writes "~" to
SemiOccurrences(s, start, end) ==
    {start + semi_location :
        semi_location \in SemiLocations(Slice(s, start, end),
                                        Count(Slice(s, start, end), ";"))}

\* where each match of string_expression in s ends, by where it starts
StringEnds(s) ==
    LET starts == {k \in 0..(Len(s) - 1) : At(s, k) = "\""}
        ends == [k \in starts |-> string_expression(s, k)]
    IN [k \in {x \in starts : ends[x] # -1} |-> ends[k]]

RECURSIVE Occurrences(_, _, _)
\* the indices written by the loop over re.finditer(string_expression, s),
\* for the matches at or after position i
Occurrences(s, ends, i) ==
    LET starts == {k \in DOMAIN ends : k >= i}
    IN IF starts = {} THEN {}
       ELSE SemiOccurrences(s, Least(starts), ends[Least(starts)])
            \cup Occurrences(s, ends, ends[Least(starts)])

\* mutable_buffer with "~" at the indices written
Written(mutable_buffer, written) ==
    [j \in 1..Len(mutable_buffer) |->
        IF (j - 1) \in written THEN "~" ELSE mutable_buffer[j]]

\* the buffer joined from mutable_buffer after the loop over the matches
Neutralise(s) == Written(s, Occurrences(s, StringEnds(s), 0))

(***************************************************************************)
(* int() and hex().                                                        *)
(***************************************************************************)
HexDigits == <<"0", "1", "2", "3", "4", "5", "6", "7", "8", "9",
               "A", "B", "C", "D", "E", "F">>

Lowers == <<"a", "b", "c", "d", "e", "f", "g", "h", "i", "j", "k", "l", "m",
            "n", "o", "p", "q", "r", "s", "t", "u", "v", "w", "x", "y", "z">>

Uppers == <<"A", "B", "C", "D", "E", "F", "G", "H", "I", "J", "K", "L", "M",
            "N", "O", "P", "Q", "R", "S", "T", "U", "V", "W", "X", "Y", "Z">>

\* the upper case letter of each lower case letter
UpperOf ==
    [c \in {Lowers[k] : k \in 1..Len(Lowers)} |->
        Uppers[CHOOSE k \in 1..Len(Lowers) : Lowers[k] = c]]

\* c.upper()
Upper(c) == IF c \in DOMAIN UpperOf THEN UpperOf[c] ELSE c

\* the value of each digit, in upper case
ValueOf ==
    [c \in {HexDigits[k] : k \in 1..Len(HexDigits)} |->
        (CHOOSE k \in 1..Len(HexDigits) : HexDigits[k] = c) - 1]

\* the value of the digit c in the base, or -1
DigitValue(c, base) ==
    IF Upper(c) \in DOMAIN ValueOf /\ ValueOf[Upper(c)] < base
    THEN ValueOf[Upper(c)]
    ELSE -1

RECURSIVE DigitsValue(_, _)
DigitsValue(digits, base) ==
    IF digits = <<>> THEN 0
    ELSE DigitsValue(SubSeq(digits, 1, Len(digits) - 1), base) * base
         + DigitValue(digits[Len(digits)], base)

\* the text of an integer literal without its sign; the whitespace between
\* the sign and the digits is skipped, as int() of Python 2 skips it
Unsigned(t) ==
    IF t # <<>> /\ Head(t) \in {"+", "-"}
    THEN LStripChars(Tail(t), Whitespace)
    ELSE t

\* the digits of a literal in the base: base 16 allows a 0x prefix
Digits(t, base) ==
    IF base = 16 /\ Len(t) >= 2 /\ t[1] = "0" /\ Upper(t[2]) = "X"
    THEN SubSeq(t, 3, Len(t))
    ELSE t

\* int(s, base) does not raise ValueError
IsInt(s, base) ==
    LET digits == Digits(Unsigned(Strip(s)), base)
    IN /\ digits # <<>>
       /\ \A k \in 1..Len(digits) : DigitValue(digits[k], base) # -1

\* int(s, base)
Int_(s, base) ==
    LET t == Strip(s)
        v == DigitsValue(Digits(Unsigned(t), base), base)
    IN IF t # <<>> /\ Head(t) = "-" THEN 0 - v ELSE v

RECURSIVE HexOf(_)
\* the digits of hex(n) for n >= 0, in upper case
HexOf(n) ==
    IF n < 16 THEN HexDigits[n + 1]
    ELSE HexOf(n \div 16) \o HexDigits[(n % 16) + 1]

\* int() of Python 2 gave a long: the value is outside the 64 bits of a
\* plain int, that is n >= 2^63 or n < -2^63 (2^63 is divided out in steps
\* that stay small)
IsLong(n) ==
    LET magnitude == IF n >= 0 THEN n ELSE 0 - n - 1
    IN ((magnitude \div 1073741824) \div 1073741824) \div 8 >= 1

\* hex(result)[2:].upper(): the slice drops "0x", and "-0" of a negative
\* one; hex() of a long ends in "L"
HexUpper(result) ==
    (IF result >= 0 THEN HexOf(result) ELSE "X" \o HexOf(0 - result))
    \o (IF IsLong(result) THEN "L" ELSE "")

(***************************************************************************)
(* Helper functions of Scraper.                                            *)
(***************************************************************************)
RECURSIVE DescBegin(_, _, _)
\* the loop of _extract_description, from index downwards
DescBegin(source, i, ignore_delineator) ==
    IF i < 0 THEN -1
    ELSE IF At(source, i) = "," /\ ~ignore_delineator THEN i + 1
    ELSE IF At(source, i) = "\"" THEN DescBegin(source, i - 1, ~ignore_delineator)
    ELSE DescBegin(source, i - 1, ignore_delineator)

\* _extract_description without the last replace: the sentinel stays
_extract_description_sentinel(source) ==
    LET desc_end == RFind(source, <<"\"">>, 0, Len(source))
        desc_begin == DescBegin(source, desc_end - 1, TRUE)
        desc == Replace(LStrip(Slice(source, desc_begin + 1, desc_end)),
                        <<"(", "i", "n", "t", ")", "\"">>, <<>>)
    IN [source |-> Slice(source, 0, desc_begin)
                   \o Slice(source, desc_end, Len(source)),
        desc |-> desc]

\* the pair (source, desc) that _extract_description returns
_extract_description(source) ==
    LET desc_end == RFind(source, <<"\"">>, 0, Len(source))
        desc_begin == DescBegin(source, desc_end - 1, TRUE)
        desc == Replace(LStrip(Slice(source, desc_begin + 1, desc_end)),
                        <<"(", "i", "n", "t", ")", "\"">>, <<>>)
    IN [source |-> Slice(source, 0, desc_begin)
                   \o Slice(source, desc_end, Len(source)),
        desc |-> Replace(desc, <<"~">>, <<";">>)]

\* _extract_name(source, index) for index < len(source)
_extract_name(source, i) ==
    LET name == LStrip(At(source, i))
        cut == RStripChars(Slice(name, Find(name, <<"\"">>, 0) + 1, Len(name)),
                           {"\"", " "})
    IN Replace(cut,
               <<"(", "i", "n", "t", ")", "&", "o", "f", "f", "_",
                 "7", "9", "5", "7", "A", "C">>,
               <<"S", "k", "y">>)

\* _extract_address(source, index) for index < len(source)
_extract_address(source, i) ==
    LET address == At(source, i)
    IN LStrip(RStripChars(Slice(address, Find(address, <<"_">>, 0) + 1,
                                Len(address)),
                          {"\"", " "}))

\* _extract_caller(source) does not raise ValueError
CallerIsHex(source) ==
    LET start == Find(source, <<"(">>, 0)
        end == Find(source, <<")">>, start)
    IN IsInt(Slice(source, start + 1, end), 16)

\* _extract_caller without the [2:] slice: the "0x" of hex() is kept
_extract_caller_prefixed(source) ==
    LET start == Find(source, <<"(">>, 0)
        end == Find(source, <<")">>, start)
    IN "0X" \o HexUpper(Int_(Slice(source, start + 1, end), 16))

\* _extract_caller(source)
_extract_caller(source) ==
    LET start == Find(source, <<"(">>, 0)
        end == Find(source, <<")">>, start)
    IN HexUpper(Int_(Slice(source, start + 1, end), 16))

(***************************************************************************)
(* The registration expressions.                                           *)
(***************************************************************************)
_global_function_registry ==
    << <<"4", "2", "6", "6", "5", "0">>, <<"4", "2", "6", "5", "9", "0">>,
       <<"4", "2", "6", "5", "D", "0">>, <<"4", "2", "6", "5", "5", "0">>,
       <<"4", "2", "6", "6", "1", "0">> >>

_type_function_registry ==
    << <<"4", "2", "6", "4", "5", "0">>, <<"4", "2", "6", "5", "1", "0">>,
       <<"4", "2", "6", "4", "5", "0">>, <<"4", "2", "5", "9", "6", "0">> >>

_datablock_property_registry == << <<"4", "2", "3", "F", "2", "0">> >>

_global_value_registry == << <<"4", "2", "6", "3", "B", "0">> >>

\* s[i:i+len(pat)] equals pat under re.IGNORECASE
StartsAtIgnoreCase(s, pat, i) ==
    /\ i + Len(pat) <= Len(s)
    /\ \A k \in 1..Len(pat) : Upper(s[i + k]) = Upper(pat[k])

\* the index after the run of [^;{] that starts at i
SkipStatement(s, i) == SkipTo(s, i, {";", "{"})

\* the end of the match of "sub_(a|b|..)[^;{]+;[^\"]" that starts at i, or -1
_registration_expression_template(s, i, registry) ==
    IF ~StartsAtIgnoreCase(s, <<"s", "u", "b", "_">>, i) THEN -1
    ELSE LET hits == {k \in 1..Len(registry) :
                         StartsAtIgnoreCase(s, registry[k], i + 4)}
         IN IF hits = {} THEN -1
            ELSE LET k == CHOOSE k \in hits : \A h \in hits : k <= h
                     q == i + 4 + Len(registry[k])
                     e == SkipStatement(s, q)
                 IN IF /\ e > q
                       /\ e + 1 < Len(s)
                       /\ At(s, e) = ";"
                       /\ At(s, e + 1) # "\""
                    THEN e + 2
                    ELSE -1

\* the start of the next match of re.finditer at or after position i, or -1
finditer(s, i, registry) ==
    LET starts == {k \in i..(Len(s) - 1) :
                      _registration_expression_template(s, k, registry) # -1}
    IN IF starts = {} THEN -1 ELSE Least(starts)

(***************************************************************************)
(* Lines of decompiled pseudo source, as Tribes2.c holds them.              *)
(***************************************************************************)
\* sub_426650((int)"echo", (int)sub_4A0B10, (int)"e(t)", 2, 5);
LineEcho ==
    <<"s", "u", "b", "_", "4", "2", "6", "6", "5", "0", "(", "(", "i", "n",
      "t", ")", "\"", "e", "c", "h", "o", "\"", ",", " ", "(", "i", "n", "t",
      ")", "s", "u", "b", "_", "4", "A", "0", "B", "1", "0", ",", " ", "(",
      "i", "n", "t", ")", "\"", "e", "(", "t", ")", "\"", ",", " ", "2", ",",
      " ", "5", ")", ";">>

\* sub_426550((int)"exec", (int)sub_4A0B20, (int)"x", v3, 5);
LineBadMin ==
    <<"s", "u", "b", "_", "4", "2", "6", "5", "5", "0", "(", "(", "i", "n",
      "t", ")", "\"", "e", "x", "e", "c", "\"", ",", " ", "(", "i", "n", "t",
      ")", "s", "u", "b", "_", "4", "A", "0", "B", "2", "0", ",", " ", "(",
      "i", "n", "t", ")", "\"", "x", "\"", ",", " ", "v", "3", ",", " ", "5",
      ")", ";">>

\* sub_4265d0((int)"mAdd", (int)sub_4A0B30, (int)"a;b", 2, 0);
LineMAdd ==
    <<"s", "u", "b", "_", "4", "2", "6", "5", "d", "0", "(", "(", "i", "n",
      "t", ")", "\"", "m", "A", "d", "d", "\"", ",", " ", "(", "i", "n", "t",
      ")", "s", "u", "b", "_", "4", "A", "0", "B", "3", "0", ",", " ", "(",
      "i", "n", "t", ")", "\"", "a", ";", "b", "\"", ",", " ", "2", ",", " ",
      "0", ")", ";">>

\* sub_426450(v1, (int)"Player", (int)"getName", (int)sub_5A0000, (int)"n", 2, 2);
LineGetName ==
    <<"s", "u", "b", "_", "4", "2", "6", "4", "5", "0", "(", "v", "1", ",",
      " ", "(", "i", "n", "t", ")", "\"", "P", "l", "a", "y", "e", "r", "\"",
      ",", " ", "(", "i", "n", "t", ")", "\"", "g", "e", "t", "N", "a", "m",
      "e", "\"", ",", " ", "(", "i", "n", "t", ")", "s", "u", "b", "_", "5",
      "A", "0", "0", "0", "0", ",", " ", "(", "i", "n", "t", ")", "\"", "n",
      "\"", ",", " ", "2", ",", " ", "2", ")", ";">>

\* sub_426510(v1, (int)"Player", (int)"setName", (int)sub_5A0010, (int)"s", 3, v4);
LineBadMax ==
    <<"s", "u", "b", "_", "4", "2", "6", "5", "1", "0", "(", "v", "1", ",",
      " ", "(", "i", "n", "t", ")", "\"", "P", "l", "a", "y", "e", "r", "\"",
      ",", " ", "(", "i", "n", "t", ")", "\"", "s", "e", "t", "N", "a", "m",
      "e", "\"", ",", " ", "(", "i", "n", "t", ")", "s", "u", "b", "_", "5",
      "A", "0", "0", "1", "0", ",", " ", "(", "i", "n", "t", ")", "\"", "s",
      "\"", ",", " ", "3", ",", " ", "v", "4", ")", ";">>

\* sub_425960(v1, (int)"Item", (int)"getName", (int)sub_5B0000, (int)"n", 3, 2);
LineItem ==
    <<"s", "u", "b", "_", "4", "2", "5", "9", "6", "0", "(", "v", "1", ",",
      " ", "(", "i", "n", "t", ")", "\"", "I", "t", "e", "m", "\"", ",", " ",
      "(", "i", "n", "t", ")", "\"", "g", "e", "t", "N", "a", "m", "e", "\"",
      ",", " ", "(", "i", "n", "t", ")", "s", "u", "b", "_", "5", "B", "0",
      "0", "0", "0", ",", " ", "(", "i", "n", "t", ")", "\"", "n", "\"", ",",
      " ", "3", ",", " ", "2", ")", ";">>

\* sub_4263B0((int)"$pref", 3, (int)&unk_79A0);
LineValue ==
    <<"s", "u", "b", "_", "4", "2", "6", "3", "B", "0", "(", "(", "i", "n",
      "t", ")", "\"", "$", "p", "r", "e", "f", "\"", ",", " ", "3", ",", " ",
      "(", "i", "n", "t", ")", "&", "u", "n", "k", "_", "7", "9", "A", "0",
      ")", ";">>

\* sub_4263B0((int)"$bad", v2, (int)&unk_79B0);
LineBadType ==
    <<"s", "u", "b", "_", "4", "2", "6", "3", "B", "0", "(", "(", "i", "n",
      "t", ")", "\"", "$", "b", "a", "d", "\"", ",", " ", "v", "2", ",", " ",
      "(", "i", "n", "t", ")", "&", "u", "n", "k", "_", "7", "9", "B", "0",
      ")", ";">>

\* //----- (0061E7A0) ----
LineHeaderKnown ==
    <<"/", "/", "-", "-", "-", "-", "-", " ", "(", "0", "0", "6", "1", "E",
      "7", "A", "0", ")", " ", "-", "-", "-", "-">>

\* //----- (00abcdef) ----
LineHeaderUnknown ==
    <<"/", "/", "-", "-", "-", "-", "-", " ", "(", "0", "0", "a", "b", "c",
      "d", "e", "f", ")", " ", "-", "-", "-", "-">>

\* sub_423F20((int)"mass", 5, 120);
LineMass ==
    <<"s", "u", "b", "_", "4", "2", "3", "F", "2", "0", "(", "(", "i", "n",
      "t", ")", "\"", "m", "a", "s", "s", "\"", ",", " ", "5", ",", " ", "1",
      "2", "0", ")", ";">>

\* sub_ABCDEF(0, "quote;inside", "MyFunc", 2, 5);"
LineCrafted ==
    <<"s", "u", "b", "_", "A", "B", "C", "D", "E", "F", "(", "0", ",", " ",
      "\"", "q", "u", "o", "t", "e", ";", "i", "n", "s", "i", "d", "e", "\"",
      ",", " ", "\"", "M", "y", "F", "u", "n", "c", "\"", ",", " ", "2", ",",
      " ", "5", ")", ";", "\"">>

\* sub_426650((int)"MyFunc", (int)sub_4A0B10, (int)"quote;inside", 2, 5);
LineMyFunc ==
    <<"s", "u", "b", "_", "4", "2", "6", "6", "5", "0", "(", "(", "i", "n",
      "t", ")", "\"", "M", "y", "F", "u", "n", "c", "\"", ",", " ", "(", "i",
      "n", "t", ")", "s", "u", "b", "_", "4", "A", "0", "B", "1", "0", ",",
      " ", "(", "i", "n", "t", ")", "\"", "q", "u", "o", "t", "e", ";", "i",
      "n", "s", "i", "d", "e", "\"", ",", " ", "2", ",", " ", "5", ")", ";">>

\* }
LineEnd ==
    <<"}">>


(***************************************************************************)
(* The component classes.                                                  *)
(***************************************************************************)
EngineComponent(name, address, type_name, description) ==
    [name |-> name, address |-> address, type_name |-> type_name,
     description |-> description]

Function(name, address, type_name, description, min_args, max_args) ==
    [name |-> name, address |-> address, type_name |-> type_name,
     description |-> description, min_args |-> min_args, max_args |-> max_args]

GlobalVariable(name, address, type_name) ==
    EngineComponent(name, address, type_name, None)

Property(name, address, type_name) ==
    EngineComponent(name, address, type_name, None)

Datablock(name) ==
    [name |-> name, address |-> None, type_name |-> None, description |-> None,
     properties |-> <<>>]

(***************************************************************************)
(* dict and attribute access.                                              *)
(***************************************************************************)
\* d[k] = v
Put(d, k, v) == [x \in DOMAIN d \cup {k} |-> IF x = k THEN v ELSE d[x]]

\* d.setdefault(k, v)
SetDefault(d, k, v) == IF k \in DOMAIN d THEN d ELSE Put(d, k, v)

\* obj.attr: the instance's attribute, else the attribute of the class
GetAttr(obj, class, attr) == IF attr \in DOMAIN obj THEN obj[attr] ELSE class[attr]

\* obj.attr = v
SetAttr(obj, attr, v) == Put(obj, attr, v)

\* list.pop(i), the list that is left
Pop(list, i) == SubSeq(list, 1, i) \o SubSeq(list, i + 2, Len(list))

(***************************************************************************)
(* The class attributes of Scraper.                                        *)
(***************************************************************************)
_datablock_type_table ==
    ("61E7A0" :> "ExplosionData")
    @@ ("5B4F60" :> "WaterBlockData")
    @@ ("612400" :> "WheeledVehicleData")
    @@ ("6161E0" :> "HoverVehicleData")
    @@ ("5CE810" :> "PlayerData")
    @@ ("6034C0" :> "ItemData")
    @@ ("69C170" :> "TriggerData")
    @@ ("50DC70" :> "AudioProfileData")
    @@ ("62B3C0" :> "LinearProjectile")
    @@ ("60F820" :> "FlyingVehicleData")
    @@ ("6370D0" :> "SeekingProjectileData")
    @@ ("69B0F0" :> "PrecipitationData")
    @@ ("641480" :> "SniperProjectileData")
    @@ ("66A270" :> "SensorData")
    @@ ("6303F0" :> "GrenadeProjectileData")
    @@ ("6333D0" :> "GrenadeProjectileData")
    @@ ("694B40" :> "TracerProjectileData")
    @@ ("6470D0" :> "TargetProjectileData")
    @@ ("653E10" :> "TurretData")
    @@ ("654AE0" :> "TurretData")
    @@ ("5E4C20" :> "TurretData")
    @@ ("654330" :> "TurretImageData")
    @@ ("64E2B0" :> "LightningData")
    @@ ("627150" :> "LightningData")
    @@ ("621DF0" :> "ParticleEmitterData")
    @@ ("622E60" :> "ParticleData")
    @@ ("644910" :> "ELFProjectileData")
    @@ ("64A860" :> "ELFProjectileData")
    @@ ("5F4D90" :> "ShapeBaseImageData")
    @@ ("602940" :> "StaticShapeData")
    @@ ("66B000" :> "SpawnSphere")
    @@ ("6099E0" :> "VehicleData")
    @@ ("47D880" :> "AI Task?")
    @@ ("63D870" :> "LinearFlareData")
    @@ ("59A870" :> "TerrainData")
    @@ ("68C4B0" :> "ShockwaveData")
    @@ ("4B5840" :> "CorpseData")
    @@ ("619B30" :> "Sky")
    @@ ("5AB310" :> "Sky")
    @@ ("68AAA0" :> "PhysicalZone")
    @@ ("626240" :> "Debris")
    @@ ("684000" :> "Debris")
    @@ ("6751A0" :> "ForceFieldBareData")
    @@ ("631A50" :> "ProjectileData")
    @@ ("69AF10" :> "FireballAtmosphere")

Scraper ==
    [_datablock_type_table |-> _datablock_type_table,
     type_function_total |-> 0,
     global_function_count |-> 0,
     type_function_counts |-> None,
     global_functions |-> None,
     type_methods |-> None,
     global_values |-> None,
     datablocks |-> None]

(***************************************************************************)
(* Scraper.__init__: the steps of the four scans.                          *)
(***************************************************************************)
\* the result of Scraper.attr = Scraper.attr + 1: the counter stays on the class
IncrementOnClass(obj, class, attr) ==
    [obj |-> obj, class |-> [class EXCEPT ![attr] = @ + 1]]

\* the result of self.attr = self.attr + 1
Increment(obj, class, attr) ==
    [obj |-> SetAttr(obj, attr, GetAttr(obj, class, attr) + 1), class |-> class]

\* the text between the first "(" and the last ")" of a global function match
GlobalFunctionSource(global_function_source) ==
    LET opening_index == Find(global_function_source, <<"(">>, 0)
        closing_index == RFind(global_function_source, <<")">>,
                               Count(global_function_source, ")") - 1,
                               Len(global_function_source))
    IN Slice(global_function_source, opening_index + 1, closing_index)

\* the text between the first "(" and the last ")" of any other match
CallSource(source) ==
    LET opening_index == Find(source, <<"(">>, 0)
        closing_index == RFind(source, <<")">>, 0, Len(source))
    IN Slice(source, opening_index + 1, closing_index)

\* the exception the try block of the global function scan raises, or None
GlobalFunctionRaises(arguments) ==
    IF Len(arguments) < 2 THEN "IndexError"
    ELSE IF Len(arguments) < 4 THEN "IndexError"
    ELSE IF ~IsInt(At(arguments, 3), 10) THEN "ValueError"
    ELSE IF Len(arguments) < 5 THEN "IndexError"
    ELSE IF ~IsInt(At(arguments, 4), 10) THEN "ValueError"
    ELSE None

\* the record the try block of the global function scan appends
GlobalFunctionOf(arguments, description) ==
    Function(_extract_name(arguments, 0), _extract_address(arguments, 1), None,
             description, Int_(At(arguments, 3), 10), Int_(At(arguments, 4), 10))

\* a try block that counts the match before it parses the argument counts
GlobalFunctionCountedFirst(obj, class, arguments, description) ==
    LET inc == Increment(obj, class, "global_function_count")
    IN IF GlobalFunctionRaises(arguments) = "IndexError"
       THEN [obj |-> obj, class |-> class]
       ELSE IF GlobalFunctionRaises(arguments) = "ValueError"
       THEN inc
       ELSE [obj |-> SetAttr(inc.obj, "global_functions",
                             Append(GetAttr(inc.obj, inc.class, "global_functions"),
                                    GlobalFunctionOf(arguments, description))),
             class |-> inc.class]

\* the try block of the global function scan: the instance and class it leaves
GlobalFunctionTry(obj, class, arguments, description) ==
    IF GlobalFunctionRaises(arguments) # None
    THEN [obj |-> obj, class |-> class]
    ELSE LET inc == Increment(obj, class, "global_function_count")
         IN [obj |-> SetAttr(inc.obj, "global_functions",
                             Append(GetAttr(inc.obj, inc.class, "global_functions"),
                                    GlobalFunctionOf(arguments, description))),
             class |-> inc.class]

\* the exception one pass of the type method scan raises, or None
TypeMethodRaises(arguments) ==
    IF Len(arguments) < 4 THEN "IndexError"
    ELSE IF Len(arguments) < 6 THEN "IndexError"
    ELSE IF ~IsInt(At(arguments, 5), 10) THEN "ValueError"
    ELSE IF Len(arguments) < 7 THEN "IndexError"
    ELSE IF ~IsInt(At(arguments, 6), 10) THEN "ValueError"
    ELSE None

\* the tuple the try block of the type method scan appends
TypeMethodOf(arguments, description) ==
    <<_extract_name(arguments, 1), _extract_address(arguments, 3),
      _extract_name(arguments, 2), description,
      Int_(At(arguments, 5), 10), Int_(At(arguments, 6), 10)>>

\* a try block that leaves the count of the type as setdefault made it
TypeMethodUncounted(obj, class, arguments, description) ==
    IF TypeMethodRaises(arguments) # None
    THEN [obj |-> obj, class |-> class]
    ELSE LET type_method_type == _extract_name(arguments, 1)
             methods == SetDefault(GetAttr(obj, class, "type_methods"),
                                   type_method_type, <<>>)
             counts == SetDefault(GetAttr(obj, class, "type_function_counts"),
                                  type_method_type, 0)
             inc == Increment(obj, class, "type_function_total")
         IN [obj |->
                SetAttr(SetAttr(inc.obj, "type_function_counts", counts),
                        "type_methods",
                        Put(methods, type_method_type,
                            Append(methods[type_method_type],
                                   TypeMethodOf(arguments, description)))),
             class |-> inc.class]

\* the try block of the type method scan: the instance and class it leaves
TypeMethodTry(obj, class, arguments, description) ==
    IF TypeMethodRaises(arguments) # None
    THEN [obj |-> obj, class |-> class]
    ELSE LET type_method_type == _extract_name(arguments, 1)
             methods == SetDefault(GetAttr(obj, class, "type_methods"),
                                   type_method_type, <<>>)
             counts == SetDefault(GetAttr(obj, class, "type_function_counts"),
                                  type_method_type, 0)
             inc == Increment(obj, class, "type_function_total")
         IN [obj |->
                SetAttr(SetAttr(inc.obj, "type_function_counts",
                                Put(counts, type_method_type,
                                    counts[type_method_type] + 1)),
                        "type_methods",
                        Put(methods, type_method_type,
                            Append(methods[type_method_type],
                                   TypeMethodOf(arguments, description)))),
             class |-> inc.class]

\* the exception one pass of the global value scan raises, or None
GlobalValueRaises(arguments) ==
    IF Len(arguments) < 3 THEN "IndexError"
    ELSE IF ~IsInt(At(arguments, 1), 10) THEN "ValueError"
    ELSE None

\* the record one pass of the global value scan appends
GlobalValueOf(arguments) ==
    LET global_value_name == _extract_name(arguments, 0)
        global_value_address == _extract_address(arguments, 2)
        global_value_type == Int_(At(arguments, 1), 10)
    IN GlobalVariable(global_value_address, global_value_type, 0)

\* the declaration header a datablock property match at start is under
DeclarationSource(buffer, start) ==
    LET declaration_start ==
            RFind(buffer, <<"/", "/", "-", "-", "-", "-", "-", " ">>, 0, start)
        declaration_end == RFind(buffer, <<"-">>, declaration_start, start)
    IN Slice(buffer, declaration_start, declaration_end)

\* a resolution that gives every subroutine the table lacks one common name
DatablockTypeUnknown(table, calling_method) ==
    SetDefault(table, calling_method, "Unknown")[calling_method]

\* the type a calling subroutine resolves to once it is in the table
DatablockType(table, calling_method) ==
    SetDefault(table, calling_method, calling_method)[calling_method]

\* the exception one pass of the datablock property scan raises, or None
DatablockPropertyRaises(declaration_source, datablock_arguments) ==
    IF ~CallerIsHex(declaration_source) THEN "ValueError"
    ELSE IF Len(datablock_arguments) < 3 THEN "IndexError"
    ELSE None

\* datablocks after one pass of the datablock property scan
DatablockPropertyAdd(datablocks, datablock_type, datablock_arguments) ==
    LET known == SetDefault(datablocks, datablock_type, Datablock(datablock_type))
        datablock_property_name == _extract_name(datablock_arguments, 0)
        datablock_property_address == _extract_address(datablock_arguments, 2)
        current_datablock == known[datablock_type]
    IN IF Len(datablock_arguments) < 3 THEN known
       ELSE Put(known, datablock_type,
                [current_datablock EXCEPT !.properties =
                    Put(@, datablock_property_name,
                        Property(datablock_property_name,
                                 datablock_property_address,
                                 <<"B", "l", "a">>))])

(***************************************************************************)
(* The input files.                                                        *)
(***************************************************************************)
\* the runs of lines a file is made of: a registration call, or the header
\* of a subroutine declaration and the registration call in its body
Blocks ==
    {<<LineEcho>>, <<LineBadMin>>, <<LineMAdd>>,
     <<LineGetName>>, <<LineBadMax>>, <<LineItem>>,
     <<LineValue>>, <<LineBadType>>, <<LineCrafted>>, <<LineMyFunc>>,
     <<LineHeaderKnown, LineMass>>, <<LineHeaderUnknown, LineMass>>}

RECURSIVE Flatten(_)
Flatten(blocks) ==
    IF blocks = <<>> THEN <<>> ELSE Head(blocks) \o Flatten(Tail(blocks))

\* file_buffer after the join of the chopped lines; the last line closes the
\* body of the last subroutine
Files ==
    {Join(Flatten(blocks) \o <<LineEnd>>, <<" ">>) :
        blocks \in UNION {[1..n -> Blocks] : n \in 0..MaxBlocks}}

\* the characters of the short buffers the preprocessor is checked on
Characters == {"\"", ";", " ", "a"}

Buffers == UNION {[1..n -> Characters] : n \in 0..MaxLen}

\* the characters of the short argument strings _extract_description is
\* called on: the quote, the delineator, the sentinel, a space and a letter
ArgumentCharacters == {"\"", ",", "~", " ", "a"}

Arguments == UNION {[1..n -> ArgumentCharacters] : n \in 0..MaxLen}

(***************************************************************************)
(* The state machine.                                                      *)
(***************************************************************************)
Start ==
    /\ file_buffer = <<>>
    /\ pc = "preprocess"
    /\ pos = 0
    /\ self = <<>>
    /\ cls = Scraper
    /\ prev = <<>>
    /\ run = 1
    /\ exc = None
    /\ index = 0
    /\ global_arith_functions = <<>>
    /\ global_alx_functions = <<>>

\* no call of _extract_description on its own is under way; returned is the
\* list of what such calls have returned
NoCall == argument_string = <<>> /\ returned = <<>>

Init == file \in Files /\ Start /\ NoCall

InitPre == file \in Buffers /\ Start /\ NoCall

\* _extract_description is about to be called on an argument string
InitExtract == file = <<>> /\ Start /\ argument_string \in Arguments /\ returned = <<>>

\* an uncaught exception leaves __init__ (or main)
Raise(where, exception) ==
    /\ pc' = where
    /\ exc' = exception

\* scraper.py 261-303: read, chop, join, neutralise the semicolons in literals
Preprocess ==
    /\ UNCHANGED <<argument_string, returned>>
    /\ pc = "preprocess"
    /\ file_buffer' = Neutralise(file)
    /\ self' = SetAttr(<<>>, "global_functions", <<>>)
    /\ pc' = "global_functions"
    /\ pos' = 0
    /\ UNCHANGED <<file, cls, prev, run, exc, index,
                   global_arith_functions, global_alx_functions>>

\* scraper.py 304-329: one pass of the loop over the global function matches
GlobalFunctionMatch ==
    /\ UNCHANGED <<argument_string, returned>>
    /\ pc = "global_functions"
    /\ \E start \in {finditer(file_buffer, pos, _global_function_registry)} :
       /\ start # -1
       /\ LET end == _registration_expression_template(
                         file_buffer, start, _global_function_registry)
              found == _extract_description(
                           GlobalFunctionSource(Slice(file_buffer, start, end)))
              global_method_arguments == Split(found.source, ",")
              left == GlobalFunctionTry(self, cls, global_method_arguments, found.desc)
          IN /\ pos' = end
             /\ self' = left.obj
             /\ cls' = left.class
             /\ IF GlobalFunctionRaises(global_method_arguments) = "IndexError"
                THEN Raise("raised", "IndexError")
                ELSE UNCHANGED <<pc, exc>>
    /\ UNCHANGED <<file, file_buffer, prev, run, index,
                   global_arith_functions, global_alx_functions>>

\* scraper.py 331-335: the global function matches are exhausted
GlobalFunctionsEnd ==
    /\ UNCHANGED <<argument_string, returned>>
    /\ pc = "global_functions"
    /\ finditer(file_buffer, pos, _global_function_registry) = -1
    /\ self' = SetAttr(SetAttr(self, "type_methods", <<>>),
                       "type_function_counts", <<>>)
    /\ pc' = "type_methods"
    /\ pos' = 0
    /\ UNCHANGED <<file, file_buffer, cls, prev, run, exc, index,
                   global_arith_functions, global_alx_functions>>

\* scraper.py 336-365: one pass of the loop over the type method matches
TypeMethodMatch ==
    /\ UNCHANGED <<argument_string, returned>>
    /\ pc = "type_methods"
    /\ \E start \in {finditer(file_buffer, pos, _type_function_registry)} :
       /\ start # -1
       /\ LET end == _registration_expression_template(
                         file_buffer, start, _type_function_registry)
              found == _extract_description(CallSource(Slice(file_buffer, start, end)))
              type_method_arguments == Split(found.source, ",")
              left == TypeMethodTry(self, cls, type_method_arguments, found.desc)
          IN /\ pos' = end
             /\ self' = left.obj
             /\ cls' = left.class
             /\ IF TypeMethodRaises(type_method_arguments) = "IndexError"
                THEN Raise("raised", "IndexError")
                ELSE UNCHANGED <<pc, exc>>
    /\ UNCHANGED <<file, file_buffer, prev, run, index,
                   global_arith_functions, global_alx_functions>>

\* scraper.py 367-369: the type method matches are exhausted
TypeMethodsEnd ==
    /\ UNCHANGED <<argument_string, returned>>
    /\ pc = "type_methods"
    /\ finditer(file_buffer, pos, _type_function_registry) = -1
    /\ self' = SetAttr(self, "global_values", <<>>)
    /\ pc' = "global_values"
    /\ pos' = 0
    /\ UNCHANGED <<file, file_buffer, cls, prev, run, exc, index,
                   global_arith_functions, global_alx_functions>>

\* scraper.py 370-384: one pass of the loop over the global value matches
GlobalValueMatch ==
    /\ UNCHANGED <<argument_string, returned>>
    /\ pc = "global_values"
    /\ \E start \in {finditer(file_buffer, pos, _global_value_registry)} :
       /\ start # -1
       /\ LET end == _registration_expression_template(
                         file_buffer, start, _global_value_registry)
              global_value_arguments ==
                  Split(CallSource(Slice(file_buffer, start, end)), ",")
              raised == GlobalValueRaises(global_value_arguments)
          IN /\ pos' = end
             /\ IF raised = None
                THEN /\ self' = SetAttr(self, "global_values",
                                        Append(GetAttr(self, cls, "global_values"),
                                               GlobalValueOf(global_value_arguments)))
                     /\ UNCHANGED <<pc, exc>>
                ELSE /\ Raise("raised", raised)
                     /\ UNCHANGED self
    /\ UNCHANGED <<file, file_buffer, cls, prev, run, index,
                   global_arith_functions, global_alx_functions>>

\* scraper.py 386-389: the global value matches are exhausted
GlobalValuesEnd ==
    /\ UNCHANGED <<argument_string, returned>>
    /\ pc = "global_values"
    /\ finditer(file_buffer, pos, _global_value_registry) = -1
    /\ self' = SetAttr(self, "datablocks", <<>>)
    /\ pc' = "datablocks"
    /\ pos' = 0
    /\ UNCHANGED <<file, file_buffer, cls, prev, run, exc, index,
                   global_arith_functions, global_alx_functions>>

\* scraper.py 390-417: one pass of the loop over the datablock property matches
DatablockPropertyMatch ==
    /\ UNCHANGED <<argument_string, returned>>
    /\ pc = "datablocks"
    /\ \E start \in {finditer(file_buffer, pos, _datablock_property_registry)} :
       /\ start # -1
       /\ LET end == _registration_expression_template(
                         file_buffer, start, _datablock_property_registry)
              declaration_source == DeclarationSource(file_buffer, start)
              datablock_arguments == Split(Slice(file_buffer, start, end), ",")
              raised == DatablockPropertyRaises(declaration_source, datablock_arguments)
              calling_method == _extract_caller(declaration_source)
              table == GetAttr(self, cls, "_datablock_type_table")
          IN /\ pos' = end
             /\ IF raised = "ValueError"
                THEN UNCHANGED <<self, cls>>
                ELSE /\ cls' = [cls EXCEPT !._datablock_type_table =
                                   SetDefault(table, calling_method, calling_method)]
                     /\ self' = SetAttr(self, "datablocks",
                                    DatablockPropertyAdd(
                                        GetAttr(self, cls, "datablocks"),
                                        DatablockType(table, calling_method),
                                        datablock_arguments))
             /\ IF raised = None
                THEN UNCHANGED <<pc, exc>>
                ELSE Raise("raised", raised)
    /\ UNCHANGED <<file, file_buffer, prev, run, index,
                   global_arith_functions, global_alx_functions>>

\* scraper.py 390: the datablock property matches are exhausted, __init__ returns
DatablockPropertiesEnd ==
    /\ UNCHANGED <<argument_string, returned>>
    /\ pc = "datablocks"
    /\ finditer(file_buffer, pos, _datablock_property_registry) = -1
    /\ pc' = "done"
    /\ UNCHANGED <<file, file_buffer, pos, self, cls, prev, run, exc, index,
                   global_arith_functions, global_alx_functions>>

\* what a caller reads off a Scraper: each attribute as the instance resolves
\* it, from itself or else from the class
Catalog(obj, class) ==
    [attr \in {"global_functions", "type_methods", "global_values", "datablocks",
               "global_function_count", "type_function_total",
               "type_function_counts"} |-> GetAttr(obj, class, attr)]

\* Scraper(filename) is called a second time in the process, on the same file;
\* prev keeps how the first call ended and what its Scraper held
Reconstruct ==
    /\ UNCHANGED <<argument_string, returned>>
    /\ pc \in {"done", "raised"}
    /\ run = 1
    /\ prev' = [catalog |-> Catalog(self, cls), pc |-> pc, exc |-> exc]
    /\ run' = 2
    /\ pc' = "preprocess"
    /\ exc' = None
    /\ self' = <<>>
    /\ file_buffer' = <<>>
    /\ pos' = 0
    /\ UNCHANGED <<file, cls, index, global_arith_functions, global_alx_functions>>

(***************************************************************************)
(* Application.main: the loops that touch the scraped model.  The text     *)
(* written to out.txt is not part of the state.                            *)
(***************************************************************************)
\* t2src.py 63
IsArithmetic(name) ==
    /\ Len(name) # 0
    /\ \/ At(name, 0) = "m"
       \/ Find(name, <<"V", "e", "c", "t", "o", "r">>, 0) # -1
       \/ Find(name, <<"M", "a", "t", "r", "i", "x">>, 0) # -1

\* t2src.py 65
IsAudio(name) ==
    \/ Find(name, <<"a", "l", "x">>, 0) # -1
    \/ Find(name, <<"a", "u", "d", "i", "o">>, 0) # -1
    \/ Find(name, <<"g", "e", "t", "A", "u", "d", "i", "o">>, 0) # -1

\* t2src.py 51-60: the scraper is built, the lists of the renderer are empty
MainStart ==
    /\ UNCHANGED <<argument_string, returned>>
    /\ pc = "done"
    /\ pc' = "classify"
    /\ index' = 0
    /\ global_arith_functions' = <<>>
    /\ global_alx_functions' = <<>>
    /\ UNCHANGED <<file, file_buffer, pos, self, cls, prev, run, exc>>

\* t2src.py 62-66: one pass of the loop that enumerates scrape.global_functions
Classify ==
    /\ UNCHANGED <<argument_string, returned>>
    /\ pc = "classify"
    /\ index < Len(self.global_functions)
    /\ LET global_function == At(self.global_functions, index)
           popped == SetAttr(self, "global_functions",
                             Pop(self.global_functions, index))
       IN IF IsArithmetic(global_function.name)
          THEN /\ global_arith_functions' =
                      Append(global_arith_functions, global_function)
               /\ self' = popped
               /\ UNCHANGED global_alx_functions
          ELSE IF IsAudio(global_function.name)
          THEN /\ global_alx_functions' =
                      Append(global_alx_functions, global_function)
               /\ self' = popped
               /\ UNCHANGED global_arith_functions
          ELSE UNCHANGED <<self, global_arith_functions, global_alx_functions>>
    /\ index' = index + 1
    /\ UNCHANGED <<file, file_buffer, pc, pos, cls, prev, run, exc>>

\* t2src.py 68-116: the enumeration ends; the listings are written
ClassifyEnd ==
    /\ UNCHANGED <<argument_string, returned>>
    /\ pc = "classify"
    /\ index >= Len(self.global_functions)
    /\ pc' = "values"
    /\ index' = 0
    /\ UNCHANGED <<file, file_buffer, pos, self, cls, prev, run, exc,
                   global_arith_functions, global_alx_functions>>

\* t2src.py 118-122: one pass of the loop over scrape.global_values
WriteGlobalValue ==
    /\ UNCHANGED <<argument_string, returned>>
    /\ pc = "values"
    /\ index < Len(self.global_values)
    /\ LET global_value == At(self.global_values, index)
       IN IF Len(global_value.name) = 0
          THEN /\ Raise("main_raised", "IndexError")
               /\ UNCHANGED self
          ELSE /\ self' = SetAttr(self, "global_values",
                      [self.global_values EXCEPT ![index + 1].name =
                          IF At(@, 0) # "$" THEN <<"$">> \o @ ELSE @])
               /\ UNCHANGED <<pc, exc>>
    /\ index' = index + 1
    /\ UNCHANGED <<file, file_buffer, pos, cls, prev, run,
                   global_arith_functions, global_alx_functions>>

\* t2src.py 124-140: the loop ends; the datablocks are written
WriteEnd ==
    /\ UNCHANGED <<argument_string, returned>>
    /\ pc = "values"
    /\ index >= Len(self.global_values)
    /\ pc' = "rendered"
    /\ UNCHANGED <<file, file_buffer, pos, self, cls, prev, run, exc, index,
                   global_arith_functions, global_alx_functions>>

Next ==
    \/ Preprocess
    \/ GlobalFunctionMatch
    \/ GlobalFunctionsEnd
    \/ TypeMethodMatch
    \/ TypeMethodsEnd
    \/ GlobalValueMatch
    \/ GlobalValuesEnd
    \/ DatablockPropertyMatch
    \/ DatablockPropertiesEnd
    \/ Reconstruct
    \/ MainStart
    \/ Classify
    \/ ClassifyEnd
    \/ WriteGlobalValue
    \/ WriteEnd

Spec == Init /\ [][Next]_vars

\* the preprocessor alone, on every short buffer
NextPre == Preprocess

SpecPre == InitPre /\ [][NextPre]_vars

\* scraper.py 420-442: one call of _extract_description
ExtractDescription ==
    /\ returned = <<>>
    /\ returned' = <<_extract_description(argument_string)>>
    /\ UNCHANGED <<file, file_buffer, pc, pos, self, cls, prev, run, exc, index,
                   global_arith_functions, global_alx_functions, argument_string>>

\* _extract_description alone, on every short argument string
NextExtract == ExtractDescription

SpecExtract == InitExtract /\ [][NextExtract]_vars

(***************************************************************************)
(* What the claims speak of.                                               *)
(***************************************************************************)
RECURSIVE Matches(_, _, _)
\* the matches of a registration expression in the buffer from position i on,
\* in order, each with the index it starts at and the index it ends before
Matches(buffer, registry, i) ==
    LET start == finditer(buffer, i, registry)
        end == _registration_expression_template(buffer, start, registry)
    IN IF start = -1 THEN <<>>
       ELSE <<[start |-> start, end |-> end]>> \o Matches(buffer, registry, end)

\* the matches the running scan has processed
Scanned(registry) ==
    SelectSeq(Matches(file_buffer, registry, 0), LAMBDA m : m.end <= pos)

\* the matches a scan has processed: those behind it while it runs, and all
\* the matches of the buffer once it has ended
Processed(registry, phase) ==
    IF pc = phase THEN Scanned(registry) ELSE Matches(file_buffer, registry, 0)

\* the fields of a global function match and of a type method match
GlobalFunctionFields(m) ==
    Split(_extract_description(
              GlobalFunctionSource(Slice(file_buffer, m.start, m.end))).source, ",")

TypeMethodFields(m) ==
    Split(_extract_description(
              CallSource(Slice(file_buffer, m.start, m.end))).source, ",")

GlobalValueFields(m) == Split(CallSource(Slice(file_buffer, m.start, m.end)), ",")

\* fields i and j are there and parse as base-10 integers
BothParse(fields, i, j) ==
    /\ Len(fields) > i /\ Len(fields) > j
    /\ IsInt(At(fields, i), 10) /\ IsInt(At(fields, j), 10)

WellFormedGlobalFunctions(matches) ==
    SelectSeq(matches, LAMBDA m : BothParse(GlobalFunctionFields(m), 3, 4))

WellFormedTypeMethods(matches) ==
    SelectSeq(matches, LAMBDA m : BothParse(TypeMethodFields(m), 5, 6))

RECURSIVE Sum(_, _)
\* the sum of f over the finite set S of its domain
Sum(f, S) ==
    IF S = {} THEN 0
    ELSE LET x == CHOOSE x \in S : TRUE IN f[x] + Sum(f, S \ {x})

\* the phases of a construction at and after which an attribute is complete
AfterGlobalFunctions ==
    \/ pc \in {"type_methods", "global_values", "datablocks", "done"}
    \/ pc = "raised" /\ "type_methods" \in DOMAIN self

AfterTypeMethods ==
    \/ pc \in {"global_values", "datablocks", "done"}
    \/ pc = "raised" /\ "global_values" \in DOMAIN self

\* the number of method records in type_methods
MethodRecords == Sum([t \in DOMAIN self.type_methods |-> Len(self.type_methods[t])],
                     DOMAIN self.type_methods)

\* the uppercase prefix-less hex address in the header a match is under
HeaderAddress(m) ==
    LET source == DeclarationSource(file_buffer, m.start)
        start == Find(source, <<"(">>, 0)
    IN HexUpper(Int_(Slice(source, start + 1, Find(source, <<")">>, start)), 16))

\* the datablock name the claims give a property match: the type the table
\* as configured holds for the address, else the address
OwnerOf(m) ==
    IF HeaderAddress(m) \in DOMAIN _datablock_type_table
    THEN _datablock_type_table[HeaderAddress(m)]
    ELSE HeaderAddress(m)

PropertyNameOf(m) ==
    _extract_name(Split(Slice(file_buffer, m.start, m.end), ","), 0)

\* the type names the address-to-type table resolves to, as configured
ResolvedTypeNames ==
    {_datablock_type_table[a] : a \in DOMAIN _datablock_type_table}

\* datablocks holds the property of the match under its owner
Holds(datablocks, m) ==
    /\ OwnerOf(m) \in DOMAIN datablocks
    /\ datablocks[OwnerOf(m)].name = OwnerOf(m)
    /\ PropertyNameOf(m) \in DOMAIN datablocks[OwnerOf(m)].properties
    /\ datablocks[OwnerOf(m)].properties[PropertyNameOf(m)].name = PropertyNameOf(m)

\* position i (from 1) of the buffer is inside a quoted literal: after an
\* opening quote and before the quote that closes it
InLiteral(s, i) ==
    /\ s[i] # "\""
    /\ Count(SubSeq(s, 1, i - 1), "\"") % 2 = 1
    /\ Count(SubSeq(s, i + 1, Len(s)), "\"") >= 1

(***************************************************************************)
(* C1.  The buffer the semicolon-neutralisation pass produces holds no ";" *)
(* at any position inside a quoted literal, and at every position outside  *)
(* the literals the character of the input.                                *)
(***************************************************************************)
C1_Neutralised ==
    pc = "global_functions" =>
        \A i \in 1..Len(file) :
            IF InLiteral(file, i)
            THEN file_buffer[i] # ";"
            ELSE file_buffer[i] = file[i]

(***************************************************************************)
(* C2.  A global function or type method match whose min-args or max-args  *)
(* field does not parse as an integer adds nothing and leaves the counters *)
(* unchanged, and the scan goes on: at every point of a scan the records   *)
(* and the counters are those of the well-formed matches processed so far, *)
(* and after it those of all the well-formed matches of the buffer.        *)
(***************************************************************************)
C2_SkipAndContinue ==
    /\ pc = "global_functions" =>
          LET n == Len(WellFormedGlobalFunctions(Scanned(_global_function_registry)))
          IN /\ Len(self.global_functions) = n
             /\ GetAttr(self, cls, "global_function_count") = n
    /\ AfterGlobalFunctions =>
          LET n == Len(WellFormedGlobalFunctions(
                           Matches(file_buffer, _global_function_registry, 0)))
          IN /\ Len(self.global_functions) = n
             /\ GetAttr(self, cls, "global_function_count") = n
    /\ pc = "type_methods" =>
          LET n == Len(WellFormedTypeMethods(Scanned(_type_function_registry)))
          IN /\ MethodRecords = n
             /\ GetAttr(self, cls, "type_function_total") = n
             /\ Sum(self.type_function_counts, DOMAIN self.type_function_counts) = n
    /\ AfterTypeMethods =>
          LET n == Len(WellFormedTypeMethods(
                           Matches(file_buffer, _type_function_registry, 0)))
          IN /\ MethodRecords = n
             /\ GetAttr(self, cls, "type_function_total") = n
             /\ Sum(self.type_function_counts, DOMAIN self.type_function_counts) = n

\* a malformed match was processed and a well-formed one after it was added,
\* in the global function scan and in the type method scan
C2_Witness ==
    \/ /\ pc = "type_methods"
       /\ Len(Scanned(_type_function_registry)) = 2
       /\ ~BothParse(TypeMethodFields(Scanned(_type_function_registry)[1]), 5, 6)
       /\ MethodRecords = 1
    \/ /\ pc = "global_functions"
       /\ Len(Scanned(_global_function_registry)) = 2
       /\ ~BothParse(GlobalFunctionFields(Scanned(_global_function_registry)[1]), 3, 4)
       /\ Len(self.global_functions) = 1

(***************************************************************************)
(* C3.  A global value match whose type code does not parse as an integer  *)
(* is discarded and the scan goes on with the next match: construction is  *)
(* never left by a ValueError raised in the global value scan.             *)
(***************************************************************************)
C3_ValueDiscarded ==
    ~(/\ pc = "raised"
      /\ exc = "ValueError"
      /\ "global_values" \in DOMAIN self
      /\ "datablocks" \notin DOMAIN self)

(***************************************************************************)
(* C4.  A malformed match of the global function, type method or global    *)
(* value category never keeps the datablock property scan from running:    *)
(* when construction ends, datablocks holds every well-formed property     *)
(* registration of the input.                                              *)
(***************************************************************************)
C4_CategoriesIndependent ==
    pc \in {"done", "raised"} =>
        /\ "datablocks" \in DOMAIN self
        /\ LET matches == Matches(file_buffer, _datablock_property_registry, 0)
           IN \A k \in 1..Len(matches) : Holds(self.datablocks, matches[k])

(***************************************************************************)
(* C5.  Every Function in global_functions and every method record in      *)
(* type_methods has min_args <= max_args.  The scans parse the two fields  *)
(* and never compare them: LineMAdd (2, 0) and LineItem (3, 2) are stored. *)
(***************************************************************************)
C5_Ordered ==
    /\ "global_functions" \in DOMAIN self =>
          \A k \in 1..Len(self.global_functions) :
              self.global_functions[k].min_args <= self.global_functions[k].max_args
    /\ "type_methods" \in DOMAIN self =>
          \A t \in DOMAIN self.type_methods :
              \A k \in 1..Len(self.type_methods[t]) :
                  self.type_methods[t][k][5] <= self.type_methods[t][k][6]

(***************************************************************************)
(* C6.  After every processed type method match, accepted or discarded,    *)
(* the sum over the types of type_function_counts[type] equals             *)
(* type_function_total, and type_function_counts[type] is the number of    *)
(* method records stored in type_methods[type].                            *)
(***************************************************************************)
C6_CountsAgree ==
    (pc = "type_methods" \/ AfterTypeMethods) =>
        LET counts == self.type_function_counts
        IN /\ Sum(counts, DOMAIN counts) = GetAttr(self, cls, "type_function_total")
           /\ DOMAIN counts = DOMAIN self.type_methods
           /\ \A t \in DOMAIN counts : counts[t] = Len(self.type_methods[t])

\* the scan has processed a discarded match and an accepted one, or two
\* accepted ones of different types
C6_Witness ==
    /\ pc = "type_methods"
    /\ Len(Scanned(_type_function_registry)) = 2
    /\ GetAttr(self, cls, "type_function_total") >= 1
    /\ \/ Len(WellFormedTypeMethods(Scanned(_type_function_registry))) = 1
       \/ Cardinality(DOMAIN self.type_function_counts) = 2

(***************************************************************************)
(* C7.  For every processed datablock property match, with A the upper     *)
(* case hex address of the declaration header above it: the catalog has a  *)
(* Datablock named table[A] when A is a key of the address-to-type table,  *)
(* and one named A when it is not, and that Datablock holds the property   *)
(* under its name.                                                         *)
(***************************************************************************)
C7_Owned ==
    pc \in {"datablocks", "done"} =>
        LET matches == Processed(_datablock_property_registry, "datablocks")
        IN \A k \in 1..Len(matches) : Holds(self.datablocks, matches[k])

\* a property under an address of the table and one under an address that
\* is not in it have both been processed
C7_Witness ==
    /\ pc = "done"
    /\ LET matches == Matches(file_buffer, _datablock_property_registry, 0)
       IN /\ Len(matches) = 2
          /\ HeaderAddress(matches[1]) \in DOMAIN _datablock_type_table
          /\ HeaderAddress(matches[2]) \notin DOMAIN _datablock_type_table
          /\ DOMAIN self.datablocks = {"ExplosionData", HeaderAddress(matches[2])}

(***************************************************************************)
(* C8, as claimed.  Once owner resolution has completed, every key of      *)
(* datablocks is a resolved type name, never a raw subroutine address.     *)
(***************************************************************************)
C8_Resolved ==
    pc = "done" => \A key \in DOMAIN self.datablocks : key \in ResolvedTypeNames

(***************************************************************************)
(* C8, amended.  Every key of datablocks is what the address-to-type table *)
(* gives for the header address of a processed property match: the type    *)
(* name configured for the address, or, for an address the table was not   *)
(* configured with, the address itself, which the scan has entered into    *)
(* the table as its own type.                                              *)
(***************************************************************************)
C8_KeyFromTable ==
    pc \in {"datablocks", "done"} =>
        LET matches == Processed(_datablock_property_registry, "datablocks")
            table == GetAttr(self, cls, "_datablock_type_table")
        IN \A key \in DOMAIN self.datablocks :
               \E k \in 1..Len(matches) :
                   LET address == HeaderAddress(matches[k])
                   IN /\ address \in DOMAIN table
                      /\ key = table[address]
                      /\ key = IF address \in DOMAIN _datablock_type_table
                               THEN _datablock_type_table[address]
                               ELSE address

\* a raw address is a key of datablocks
C8_Witness ==
    /\ pc = "done"
    /\ \E key \in DOMAIN self.datablocks :
           /\ key \notin ResolvedTypeNames
           /\ key \notin DOMAIN _datablock_type_table
           /\ GetAttr(self, cls, "_datablock_type_table")[key] = key

(***************************************************************************)
(* C9.  A second construction in the same process, on the same input,      *)
(* ends as the first did and yields the same global_functions,             *)
(* type_methods, global_values, datablocks, global_function_count,         *)
(* type_function_total and type_function_counts.                           *)
(***************************************************************************)
C9_Idempotent ==
    (run = 2 /\ pc \in {"done", "raised"}) =>
        /\ pc = prev.pc
        /\ exc = prev.exc
        /\ Catalog(self, cls) = prev.catalog

\* the second construction has ended after the first one counted functions
\* and methods and entered an address into the class-level table
C9_Witness ==
    /\ run = 2
    /\ pc = "done"
    /\ prev.catalog.global_function_count + prev.catalog.type_function_total >= 1
    /\ \E key \in DOMAIN prev.catalog.datablocks :
           /\ key \notin ResolvedTypeNames
           /\ key \notin DOMAIN _datablock_type_table
           /\ key \in DOMAIN cls._datablock_type_table
           /\ cls._datablock_type_table[key] = key

(***************************************************************************)
(* C10.  Application.main only reads the finished model: no step of the    *)
(* renderer changes global_functions or any attribute of an entity.        *)
(***************************************************************************)
C10_ReadOnly ==
    [][(pc \in {"classify", "values"}) => (self' = self)]_vars

(***************************************************************************)
(* C11.  For every accepted global value match, the GlobalVariable it adds *)
(* has as name the text between the quotes of field 0, as address the      *)
(* address extracted from field 2, and as type_name the integer parsed     *)
(* from field 1.                                                           *)
(***************************************************************************)
C11_FieldsInPlace ==
    pc \in {"global_values", "datablocks", "done"} =>
        LET matches == Processed(_global_value_registry, "global_values")
        IN /\ Len(self.global_values) = Len(matches)
           /\ \A k \in 1..Len(matches) :
                  LET fields == GlobalValueFields(matches[k])
                      global_value == self.global_values[k]
                  IN /\ global_value.name = _extract_name(fields, 0)
                     /\ global_value.address = _extract_address(fields, 2)
                     /\ global_value.type_name = Int_(At(fields, 1), 10)

\* the index of the last double quote of an argument string, or -1
ClosingQuote(s) == RFind(s, <<"\"">>, 0, Len(s))

\* index i holds a comma that stands outside the quotations before the
\* closing quote: an odd number of quotes lies between it and that quote
QualifyingComma(s, i) ==
    /\ i < ClosingQuote(s)
    /\ At(s, i) = ","
    /\ Count(Slice(s, i + 1, ClosingQuote(s)), "\"") % 2 = 1

\* the string has no double quote, or no qualifying comma before its last one
NoQuotationStructure(s) ==
    \/ ClosingQuote(s) = -1
    \/ ~\E i \in 0..(Len(s) - 1) : QualifyingComma(s, i)

(***************************************************************************)
(* C12.  For an argument string with no double quote, or with a closing    *)
(* quote but no comma outside a quotation before it, _extract_description  *)
(* returns the empty description, together with a remaining argument       *)
(* string.                                                                 *)
(***************************************************************************)
C12_EmptyDescription ==
    (returned # <<>> /\ NoQuotationStructure(argument_string)) =>
        /\ returned[1].desc = <<>>
        /\ returned[1].source \in Seq(ArgumentCharacters)

\* the file holds the line
Contains(buffer, line) ==
    \E i \in 0..(Len(buffer) - Len(line)) : StartsAt(buffer, line, i)

\* a Function MyFunc with the description quote;inside, min_args 2 and
\* max_args 5 is in global_functions
MyFuncRecovered ==
    \E k \in 1..Len(self.global_functions) :
        /\ self.global_functions[k].name = <<"M", "y", "F", "u", "n", "c">>
        /\ self.global_functions[k].description =
               <<"q", "u", "o", "t", "e", ";", "i", "n", "s", "i", "d", "e">>
        /\ self.global_functions[k].min_args = 2
        /\ self.global_functions[k].max_args = 5

(***************************************************************************)
(* C13, as claimed.  For the statement                                     *)
(*     sub_ABCDEF(0, "quote;inside", "MyFunc", 2, 5);"                     *)
(* the global function scan recovers a Function with name MyFunc,          *)
(* description quote;inside, min_args 2 and max_args 5.                    *)
(***************************************************************************)
C13_CraftedRecovered ==
    (AfterGlobalFunctions /\ Contains(file, LineCrafted)) => MyFuncRecovered

(***************************************************************************)
(* C13, amended.  For the statement written as a registration call is,     *)
(*     sub_426650((int)"MyFunc", (int)sub_4A0B10, (int)"quote;inside", 2, 5); *)
(* the global function scan recovers a Function with name MyFunc,          *)
(* description quote;inside (the semicolon restored), min_args 2 and       *)
(* max_args 5; the statement under sub_ABCDEF matches no registration      *)
(* expression and yields no Function.                                      *)
(***************************************************************************)
C13_RoundTrip ==
    AfterGlobalFunctions =>
        IF Contains(file, LineMyFunc)
        THEN /\ MyFuncRecovered
             /\ Contains(file_buffer,
                    <<"q", "u", "o", "t", "e", "~", "i", "n", "s", "i", "d", "e">>)
        ELSE \A k \in 1..Len(self.global_functions) :
                 self.global_functions[k].name # <<"M", "y", "F", "u", "n", "c">>

\* both statements were scanned and one Function came of them
C13_Witness ==
    /\ pc = "done"
    /\ Contains(file, LineCrafted)
    /\ Contains(file, LineMyFunc)
    /\ Len(self.global_functions) = 1
    /\ MyFuncRecovered

\* the index of the quote that opens the last quoted literal, or -1
OpeningQuote(s) == RFind(s, <<"\"">>, 0, ClosingQuote(s))

\* the last quoted literal of the string is a description: the quotes of the
\* string pair up, and a comma outside the quotations stands before it
DescriptionLast(s) ==
    /\ ClosingQuote(s) # -1
    /\ OpeningQuote(s) # -1
    /\ Count(s, "\"") % 2 = 0
    /\ \E i \in 0..(OpeningQuote(s) - 1) : QualifyingComma(s, i)

\* the text between the quotes of the description, the sentinels restored
DescriptionText(s) ==
    Replace(Slice(s, OpeningQuote(s) + 1, ClosingQuote(s)), <<"~">>, <<";">>)

\* the fields of the string once the text of the description is taken out,
\* and the index the description has among them
OuterFields(s) ==
    Split(Slice(s, 0, OpeningQuote(s)) \o Slice(s, ClosingQuote(s), Len(s)), ",")

DescriptionIndex(s) == Count(Slice(s, 0, OpeningQuote(s)), ",")

(***************************************************************************)
(* C14.  For every argument string whose last quoted literal is the        *)
(* description, _extract_description returns as description exactly the    *)
(* text between the opening and the closing quote of that literal, with    *)
(* every "~" restored to ";", and a remainder whose split on commas has    *)
(* every other field at its index.                                         *)
(***************************************************************************)
C14_DescriptionBetweenQuotes ==
    (returned # <<>> /\ DescriptionLast(argument_string)) =>
        LET rest == Split(returned[1].source, ",")
            outer == OuterFields(argument_string)
        IN /\ returned[1].desc = DescriptionText(argument_string)
           /\ Len(rest) = Len(outer)
           /\ \A j \in 0..(Len(outer) - 1) :
                  j # DescriptionIndex(argument_string) => At(rest, j) = At(outer, j)

(***************************************************************************)
(* C15.  After the classification loop of Application.main, no Function    *)
(* left in scrape.global_functions satisfies the arithmetic or the audio   *)
(* predicate, and every function the scraper counted is in exactly one of  *)
(* the three lists.                                                        *)
(***************************************************************************)
C15_Classified ==
    pc \in {"values", "rendered", "main_raised"} =>
        /\ \A k \in 1..Len(self.global_functions) :
               /\ ~IsArithmetic(self.global_functions[k].name)
               /\ ~IsAudio(self.global_functions[k].name)
        /\ Len(self.global_functions) + Len(global_arith_functions)
               + Len(global_alx_functions)
             = GetAttr(self, cls, "global_function_count")

====
